---- MODULE Spec2Model ----
(***************************************************************************)
(* Model of src/src/main.py: a Streamlit script over a Whoosh index.       *)
(*                                                                         *)
(* Every browser session runs the script top to bottom on each user event  *)
(* (a "run"); sessions run in their own threads over one index directory   *)
(* and one process-wide cached index object.  The Whoosh calls the script  *)
(* makes are modelled by what Whoosh does at that call:                    *)
(*   - ix.writer() takes the directory's WRITELOCK and raises LockError    *)
(*     at once when it is held (timeout 0);                                *)
(*   - writer.add_document() appends to the writer's buffer without        *)
(*     looking at unique fields (only update_document() replaces);         *)
(*   - writer.commit() publishes the whole batch as one new TOC            *)
(*     generation and releases the lock, abort() discards the batch and    *)
(*     releases the lock;                                                  *)
(*   - ix.searcher() reads the TOC once and keeps that generation;         *)
(*   - ix.is_empty() is "the TOC lists no segment";                        *)
(*   - index.create_in() removes the files of the index and writes an      *)
(*     empty TOC, leaving other files alone.                               *)
(***************************************************************************)
EXTENDS Integers, Sequences, FiniteSets

(* ------------------------------------------------------------------ *)
(* Bounds of the model                                                 *)
(* ------------------------------------------------------------------ *)
MaxAdds == 1
MaxDeletes == 1

Sessions == {"s1", "s2"}
NoOne == "none"

(* Widget inputs the model draws from. *)
TitleInputs == {"", "T1", "T2"}
ContentInputs == {"", "alpha text"}
PathInputs == {"", "/docs/intro"}
DeletePathInputs == {"", "/a", "/docs/intro"}
QueryInputs == {"", "python", "interesting", "alpha"}
FieldInputs == {"content", "title"}

(* st.slider("Results per page", min_value=1, max_value=10) *)
SliderMin == 1
SliderMax == 10

(* uuid.uuid4() values, in the order they are drawn (distinct each time). *)
UuidPaths == << "/docs/<year>/<uuid-1>", "/docs/<year>/<uuid-2>",
                "/docs/<year>/<uuid-3>", "/docs/<year>/<uuid-4>" >>

(* ------------------------------------------------------------------ *)
(* Documents                                                           *)
(* ------------------------------------------------------------------ *)
documents_to_add ==
  << [title |-> "Whoosh Introduction",
      content |-> "This document introduces the Whoosh library for Python. It covers basic indexing and searching concepts.",
      path |-> "/docs/intro"],
     [title |-> "Advanced Whoosh Searching",
      content |-> "Learn about advanced search techniques in Whoosh, including boolean operators, phrase searching, and wildcards. It's truly interesting for developers.",
      path |-> "/docs/advanced"],
     [title |-> "Python Programming Basics",
      content |-> "Fundamental concepts of Python programming are discussed here. This is a basic introduction.",
      path |-> "/docs/python_basics"],
     [title |-> "Interesting Algorithms",
      content |-> "Explore various interesting algorithms and data structures. This topic is quite interesting for computer science students.",
      path |-> "/docs/algorithms"],
     [title |-> "Data Science with Python",
      content |-> "An overview of data science methodologies and how Python is used in this field.",
      path |-> "/docs/data_science"] >>

SeedPaths == { documents_to_add[i].path : i \in DOMAIN documents_to_add }

NoArg == [title |-> "", content |-> "", path |-> ""]

VARIABLES
  dir,           \* the index directory: [exists, toc, foreign]
  docs,          \* live documents of the published TOC generation, in docnum order
  hasSegments,   \* the published TOC lists at least one segment
  lock,          \* holder of the directory's WRITELOCK, or NoOne
  cached,        \* st.cache_resource holds the result of get_or_create_index
  nAdds,         \* add clicks so far (bounded by MaxAdds); also the uuid4 values drawn
  nDeletes,      \* delete clicks so far (bounded by MaxDeletes)
  pc,            \* per session: where its script run is
  arg,           \* per session: the arguments of the running add/delete call
  writer,        \* per session: the writer its run opened
  searcher,      \* per session: the searcher its run opened
  srch,          \* per session: the search tab's widget values of this run
  all_docs,      \* per session: the list get_all_documents returned
  msg,           \* per session: the status element the run last emitted
  current_page,  \* per session: st.session_state.current_page (0: not set)
  last_query,    \* per session: st.session_state.last_query ("": not set)
  page           \* per session: the results page last rendered

vars == << dir, docs, hasSegments, lock, cached, nAdds, nDeletes, pc, arg,
           writer, searcher, srch, all_docs, msg, current_page, last_query, page >>


(* ------------------------------------------------------------------ *)
(* Helpers                                                             *)
(* ------------------------------------------------------------------ *)
Min(a, b) == IF a <= b THEN a ELSE b

Max(a, b) == IF a >= b THEN a ELSE b

(* ------------------------------------------------------------------ *)
(* The Whoosh calls of the script                                      *)
(* ------------------------------------------------------------------ *)
NoWriter == [open |-> FALSE, base |-> << >>, adds |-> << >>, dels |-> {}]

NoSearcher == [open |-> FALSE, snapshot |-> << >>]

NoSrch == [q |-> "", per_page |-> 0, field |-> ""]

NoPage == [total |-> 0, per_page |-> 0, current_page |-> 0, total_pages |-> 0,
           displayed |-> 0]

(* Term("path", p) evaluated over a list of live documents. *)
TermPath(ds, p) == SelectSeq(ds, LAMBDA d : d.path = p)

(* index_obj.writer(): the WRITELOCK is free. *)
LockFreeIgnored == TRUE

LockFree == lock = NoOne

(* index_obj.writer() when the lock was taken: the writer reads the TOC. *)
NewWriter == [open |-> TRUE, base |-> docs, adds |-> << >>, dels |-> {}]

(* writer.add_document(...): buffered, no check of the unique field. *)
add_document(w, d) == [w EXCEPT !.adds = Append(@, d)]

(* writer.delete_by_query(Term("path", p)): marks the matching documents of
   the writer's segments, returns how many. *)
delete_by_query(w, p) == [w EXCEPT !.dels = @ \cup {p}]

deleted_count(w) == Cardinality({ i \in DOMAIN w.base : w.base[i].path \in w.dels })

(* writer.commit(): the live documents of the TOC generation it publishes. *)
commit(w) == SelectSeq(w.base, LAMBDA d : d.path \notin w.dels) \o w.adds

(* except Exception: writer.abort() -- the live documents afterwards. *)
abort_publishes(w) == commit(w)

abort(w) == docs

(* index_obj.is_empty() *)
is_empty == ~hasSegments

(* index_obj.searcher(): the reader of the current TOC generation. *)
NewSearcher == [open |-> TRUE, snapshot |-> docs]

(* What a search through an open searcher reads. *)
SearcherDocsLive(sr) == docs

SearcherDocs(sr) == sr.snapshot

(* The words of QueryInputs that the StemmingAnalyzer finds in a text. *)
TextsWith(w) ==
  CASE w = "python" -> { documents_to_add[1].content, documents_to_add[3].content,
                         documents_to_add[5].content, documents_to_add[3].title,
                         documents_to_add[5].title }
    [] w = "interesting" -> { documents_to_add[2].content, documents_to_add[4].content,
                              documents_to_add[4].title }
    [] w = "alpha" -> { "alpha text" }
    [] OTHER -> {}

(* searcher.search(parser.parse(q), limit=None) with default field `field`. *)
Search(ds, q, field) == SelectSeq(ds, LAMBDA d : d[field] \in TextsWith(q))

(* ------------------------------------------------------------------ *)
(* get_or_create_index                                                 *)
(* ------------------------------------------------------------------ *)
IndexState == [dir |-> dir, docs |-> docs, hasSegments |-> hasSegments]

(* index.open_dir(dir_name) *)
open_dir(d) ==
  CASE d.toc = "valid" -> "ok"
    [] d.toc = "none" -> "EmptyIndexError"
    [] OTHER -> "Exception"

(* index.create_in(dir_name, schema): removes the index's files, writes an
   empty TOC; other files of the directory stay. *)
create_in_refuses(ixs) == ixs

create_in(ixs) ==
  [dir |-> [ixs.dir EXCEPT !.toc = "valid"], docs |-> << >>, hasSegments |-> FALSE]

get_or_create_index(ixs) ==
  LET made == [ixs EXCEPT !.dir.exists = TRUE]
      opened == open_dir(made.dir)
  IN  CASE opened = "ok" ->
             [state |-> made, msg |-> "Opened existing index"]
        [] opened = "EmptyIndexError" ->
             [state |-> create_in(made), msg |-> "Index is empty or corrupt. Creating a new one."]
        [] OTHER ->
             [state |-> create_in(made), msg |-> "Error opening index. Attempting to create a new one."]


(* ------------------------------------------------------------------ *)
(* Initial states: the process starts on any directory                 *)
(* ------------------------------------------------------------------ *)
DirStates ==
  { [exists |-> FALSE, toc |-> "none", foreign |-> FALSE] }
  \cup { [exists |-> TRUE, toc |-> t, foreign |-> f] :
           t \in {"none", "valid", "corrupt"}, f \in BOOLEAN }

Start ==
  /\ lock = NoOne
  /\ cached = FALSE
  /\ nAdds = 0
  /\ nDeletes = 0
  /\ pc = [s \in Sessions |-> "idle"]
  /\ arg = [s \in Sessions |-> NoArg]
  /\ writer = [s \in Sessions |-> NoWriter]
  /\ searcher = [s \in Sessions |-> NoSearcher]
  /\ srch = [s \in Sessions |-> NoSrch]
  /\ all_docs = [s \in Sessions |-> << >>]
  /\ msg = [s \in Sessions |-> ""]
  /\ current_page = [s \in Sessions |-> 0]
  /\ last_query = [s \in Sessions |-> ""]
  /\ page = [s \in Sessions |-> NoPage]

(* The process starts where there is no directory yet, or on the index an
   earlier process left (empty, or holding the initial documents). *)
Init ==
  /\ dir \in { d \in DirStates : ~d.foreign /\ d.toc = (IF d.exists THEN "valid" ELSE "none") }
  /\ docs \in (IF dir.toc = "valid" THEN { << >>, documents_to_add } ELSE { << >> })
  /\ hasSegments = (docs # << >>)
  /\ Start

(* The process starts on any directory: missing, empty, holding other
   files, a valid index, or an index whose TOC cannot be read. *)
InitAnyDir ==
  /\ dir \in DirStates
  /\ docs \in (IF dir.toc = "none" THEN { << >> } ELSE { << >>, documents_to_add })
  /\ hasSegments = (docs # << >>)
  /\ Start

indexVars == << dir, docs, hasSegments >>

sessionState == << current_page, last_query, page >>

(* ------------------------------------------------------------------ *)
(* Script start: ix = get_or_create_index(INDEX_DIR, schema)           *)
(* ------------------------------------------------------------------ *)
GetOrCreateIndex(s) ==
  /\ pc[s] \in {"idle", "error"}
  /\ IF cached
       THEN /\ UNCHANGED << indexVars, cached >>
            /\ msg' = [msg EXCEPT ![s] = ""]
       ELSE LET r == get_or_create_index(IndexState)
            IN  /\ dir' = r.state.dir
                /\ docs' = r.state.docs
                /\ hasSegments' = r.state.hasSegments
                /\ cached' = TRUE
                /\ msg' = [msg EXCEPT ![s] = r.msg]
  /\ pc' = [pc EXCEPT ![s] = "startup"]
  /\ UNCHANGED << lock, nAdds, nDeletes, arg, writer, searcher, srch, all_docs,
                  sessionState >>

(* ------------------------------------------------------------------ *)
(* add_initial_documents_on_startup(ix)                                *)
(* ------------------------------------------------------------------ *)
StartupIsEmpty(s) ==
  /\ pc[s] = "startup"
  /\ IF is_empty
       THEN /\ pc' = [pc EXCEPT ![s] = "seed_writer"]
            /\ msg' = [msg EXCEPT ![s] = "Adding initial documents to the index..."]
       ELSE /\ pc' = [pc EXCEPT ![s] = "tabs"]
            /\ msg' = [msg EXCEPT ![s] = "Index already contains documents."]
  /\ UNCHANGED << indexVars, lock, cached, nAdds, nDeletes, arg, writer, searcher,
                  srch, all_docs, sessionState >>

(* writer = index_obj.writer(): LockError leaves the script (no handler). *)
SeedWriter(s) ==
  /\ pc[s] = "seed_writer"
  /\ IF LockFree
       THEN /\ lock' = s
            /\ writer' = [writer EXCEPT ![s] = NewWriter]
            /\ pc' = [pc EXCEPT ![s] = "seed_add"]
            /\ UNCHANGED msg
       ELSE /\ pc' = [pc EXCEPT ![s] = "error"]
            /\ msg' = [msg EXCEPT ![s] = "LockError"]
            /\ UNCHANGED << lock, writer >>
  /\ UNCHANGED << indexVars, cached, nAdds, nDeletes, arg, searcher, srch, all_docs,
                  sessionState >>

RECURSIVE AddAll(_, _, _)
AddAll(w, ds, i) ==
  IF i > Len(ds) THEN w ELSE AddAll(add_document(w, ds[i]), ds, i + 1)

(* for doc in documents_to_add: writer.add_document(...).  An exception
   leaves the script with the writer neither committed nor aborted. *)
SeedAdd(s) ==
  /\ pc[s] = "seed_add"
  /\ \E raises \in BOOLEAN :
       IF raises
         THEN /\ pc' = [pc EXCEPT ![s] = "error"]
              /\ msg' = [msg EXCEPT ![s] = "Exception in add_document"]
              /\ UNCHANGED writer
         ELSE /\ writer' = [writer EXCEPT ![s] = AddAll(@, documents_to_add, 1)]
              /\ pc' = [pc EXCEPT ![s] = "seed_commit"]
              /\ UNCHANGED msg
  /\ UNCHANGED << indexVars, lock, cached, nAdds, nDeletes, arg, searcher, srch,
                  all_docs, sessionState >>

(* writer.commit().  When it raises, nothing is published and nothing in
   the script aborts the writer; whether commit's own cleanup released the
   lock is left open. *)
SeedCommit(s) ==
  /\ pc[s] = "seed_commit"
  /\ \E raises \in BOOLEAN, released \in BOOLEAN :
       IF raises
         THEN /\ pc' = [pc EXCEPT ![s] = "error"]
              /\ msg' = [msg EXCEPT ![s] = "Exception in commit"]
              /\ IF released
                   THEN /\ lock' = NoOne
                        /\ writer' = [writer EXCEPT ![s] = NoWriter]
                   ELSE UNCHANGED << lock, writer >>
              /\ UNCHANGED << docs, hasSegments >>
         ELSE /\ released
              /\ docs' = commit(writer[s])
              /\ hasSegments' = (hasSegments \/ writer[s].adds # << >>)
              /\ lock' = NoOne
              /\ writer' = [writer EXCEPT ![s] = NoWriter]
              /\ pc' = [pc EXCEPT ![s] = "tabs"]
              /\ msg' = [msg EXCEPT ![s] = "Initial documents added and committed."]
  /\ UNCHANGED << dir, cached, nAdds, nDeletes, arg, searcher, srch, all_docs,
                  sessionState >>


(* ------------------------------------------------------------------ *)
(* Tab 1: search and pagination                                        *)
(* ------------------------------------------------------------------ *)
(* total_pages = (results.total + results_per_page - 1) // results_per_page *)
TotalPagesFloor(total, per_page) == total \div per_page

TotalPages(total, per_page) == (total + per_page - 1) \div per_page

(* Lines 165-171: reset on a new query, then on a page beyond the last. *)
ResetPage(cur, last, q, total_pages) ==
  LET c == IF cur = 0 \/ last # q THEN 1 ELSE cur
  IN  IF c > total_pages THEN 1 ELSE c

(* Lines 173-187: the Previous/Next buttons, as rendered inside the block
   that runs only in the run the Search button started. `clicked` is the
   button that started this run. *)
PaginationButtons(cur, total_pages, clicked) ==
  IF cur > 1 /\ clicked = "prev" THEN cur - 1
  ELSE IF cur < total_pages /\ clicked = "next" THEN cur + 1
  ELSE cur

(* len(results[start_idx:end_idx]) *)
SliceLen(total, start_idx, end_idx) ==
  Max(0, Min(end_idx, total) - Min(start_idx, total))

(* The Search button: search_button and search_query_str, then
   parser.parse and `with ix.searcher() as searcher`. *)
ClickSearch(s) ==
  /\ pc[s] = "tabs"
  /\ \E q \in QueryInputs, per_page \in SliderMin..SliderMax, field \in FieldInputs :
       IF q = ""
         THEN /\ pc' = [pc EXCEPT ![s] = "tab4"]
              /\ UNCHANGED << searcher, srch >>
         ELSE /\ searcher' = [searcher EXCEPT ![s] = NewSearcher]
              /\ srch' = [srch EXCEPT ![s] = [q |-> q, per_page |-> per_page, field |-> field]]
              /\ pc' = [pc EXCEPT ![s] = "tab1_results"]
  /\ page' = [page EXCEPT ![s] = NoPage]
  /\ UNCHANGED << indexVars, lock, cached, nAdds, nDeletes, arg, writer, all_docs,
                  msg, current_page, last_query >>

(* Lines 153-214: the search, the page bookkeeping and the displayed slice. *)
Tab1Results(s) ==
  /\ pc[s] = "tab1_results"
  /\ LET q == srch[s].q
         per_page == srch[s].per_page
         results == Search(SearcherDocs(searcher[s]), q, srch[s].field)
         total == Len(results)
         total_pages == TotalPages(total, per_page)
         cur1 == ResetPage(current_page[s], last_query[s], q, total_pages)
         cur2 == PaginationButtons(cur1, total_pages, "search")
         start_idx == (cur2 - 1) * per_page
         end_idx == start_idx + per_page
     IN  IF total = 0
           THEN /\ msg' = [msg EXCEPT ![s] = "No results found."]
                /\ pc' = [pc EXCEPT ![s] = "tab4"]
                /\ UNCHANGED << current_page, last_query, page >>
           ELSE /\ current_page' = [current_page EXCEPT ![s] = cur2]
                /\ last_query' = [last_query EXCEPT ![s] =
                                    IF current_page[s] = 0 \/ @ # q THEN q ELSE @]
                /\ IF cur2 # cur1
                     THEN /\ pc' = [pc EXCEPT ![s] = "rerun"]
                          /\ UNCHANGED page
                     ELSE /\ pc' = [pc EXCEPT ![s] = "tab4"]
                          /\ page' = [page EXCEPT ![s] =
                                        [total |-> total, per_page |-> per_page,
                                         current_page |-> cur2,
                                         total_pages |-> total_pages,
                                         displayed |-> SliceLen(total, start_idx, end_idx)]]
                /\ UNCHANGED msg
  /\ searcher' = [searcher EXCEPT ![s] = NoSearcher]
  /\ srch' = [srch EXCEPT ![s] = NoSrch]
  /\ UNCHANGED << indexVars, lock, cached, nAdds, nDeletes, arg, writer, all_docs >>

(* Any other event starts a run in which search_button is False: a widget
   change, the refresh button, or a Previous/Next button the last page
   showed.  The block of lines 142-214 is skipped, so nothing reads the
   Previous/Next click. *)
ClickOther(s) ==
  /\ pc[s] = "tabs"
  /\ \E clicked \in {"refresh", "prev", "next"} :
       /\ clicked = "prev" => page[s].current_page > 1
       /\ clicked = "next" => page[s].current_page < page[s].total_pages
  /\ page' = [page EXCEPT ![s] = NoPage]
  /\ pc' = [pc EXCEPT ![s] = "tab4"]
  /\ UNCHANGED << indexVars, lock, cached, nAdds, nDeletes, arg, writer, searcher,
                  srch, all_docs, msg, current_page, last_query >>

(* ------------------------------------------------------------------ *)
(* Tab 2: add_document_to_index                                        *)
(* ------------------------------------------------------------------ *)
ClickAdd(s) ==
  /\ pc[s] = "tabs"
  /\ nAdds < MaxAdds
  /\ nAdds < Len(UuidPaths)
  /\ \E t \in TitleInputs, c \in ContentInputs, p \in PathInputs :
       IF t # "" /\ c # ""
         THEN /\ cached' = FALSE
              /\ arg' = [arg EXCEPT ![s] =
                           [title |-> t, content |-> c,
                            path |-> IF p = "" THEN UuidPaths[nAdds + 1] ELSE p]]
              /\ nAdds' = nAdds + 1
              /\ pc' = [pc EXCEPT ![s] = "add_writer"]
              /\ UNCHANGED msg
         ELSE /\ msg' = [msg EXCEPT ![s] = "Please provide both a title and content."]
              /\ pc' = [pc EXCEPT ![s] = "tab4"]
              /\ UNCHANGED << cached, arg, nAdds >>
  /\ page' = [page EXCEPT ![s] = NoPage]
  /\ UNCHANGED << indexVars, lock, nDeletes, writer, searcher, srch, all_docs,
                  current_page, last_query >>

AddWriter(s) ==
  /\ pc[s] = "add_writer"
  /\ IF LockFree
       THEN /\ lock' = s
            /\ writer' = [writer EXCEPT ![s] = NewWriter]
            /\ pc' = [pc EXCEPT ![s] = "add_doc"]
            /\ UNCHANGED << msg, arg >>
       ELSE /\ pc' = [pc EXCEPT ![s] = "error"]
            /\ msg' = [msg EXCEPT ![s] = "LockError"]
            /\ arg' = [arg EXCEPT ![s] = NoArg]
            /\ UNCHANGED << lock, writer >>
  /\ UNCHANGED << indexVars, cached, nAdds, nDeletes, searcher, srch, all_docs,
                  sessionState >>

(* The except branches of lines 62-64 and 79-81: abort, st.error. *)
ExceptAbort(s, text) ==
  /\ docs' = abort(writer[s])
  /\ lock' = NoOne
  /\ writer' = [writer EXCEPT ![s] = NoWriter]
  /\ msg' = [msg EXCEPT ![s] = text]
  /\ arg' = [arg EXCEPT ![s] = NoArg]
  /\ pc' = [pc EXCEPT ![s] = "rerun"]
  /\ UNCHANGED hasSegments

AddDocument(s) ==
  /\ pc[s] = "add_doc"
  /\ \E raises \in BOOLEAN :
       IF raises
         THEN ExceptAbort(s, "Error adding document")
         ELSE /\ writer' = [writer EXCEPT ![s] = add_document(@, arg[s])]
              /\ pc' = [pc EXCEPT ![s] = "add_commit"]
              /\ UNCHANGED << docs, hasSegments, lock, msg, arg >>
  /\ UNCHANGED << dir, cached, nAdds, nDeletes, searcher, srch, all_docs,
                  sessionState >>

AddCommit(s) ==
  /\ pc[s] = "add_commit"
  /\ \E raises \in BOOLEAN :
       IF raises
         THEN ExceptAbort(s, "Error adding document")
         ELSE /\ docs' = commit(writer[s])
              /\ hasSegments' = (hasSegments \/ writer[s].adds # << >>)
              /\ lock' = NoOne
              /\ writer' = [writer EXCEPT ![s] = NoWriter]
              /\ msg' = [msg EXCEPT ![s] = "Document added successfully"]
              /\ pc' = [pc EXCEPT ![s] = "added"]
              /\ UNCHANGED arg
  /\ UNCHANGED << dir, cached, nAdds, nDeletes, searcher, srch, all_docs,
                  sessionState >>

(* st.rerun(): this run stops and the script starts again. *)
Rerun(s) ==
  /\ pc[s] \in {"rerun", "added", "deleted"}
  /\ pc' = [pc EXCEPT ![s] = "idle"]
  /\ msg' = [msg EXCEPT ![s] = ""]
  /\ arg' = [arg EXCEPT ![s] = NoArg]
  /\ UNCHANGED << indexVars, lock, cached, nAdds, nDeletes, writer, searcher, srch,
                  all_docs, sessionState >>


(* ------------------------------------------------------------------ *)
(* Tab 3: delete_document_from_index                                   *)
(* ------------------------------------------------------------------ *)
ClickDelete(s) ==
  /\ pc[s] = "tabs"
  /\ nDeletes < MaxDeletes
  /\ \E p \in DeletePathInputs :
       IF p # ""
         THEN /\ cached' = FALSE
              /\ arg' = [arg EXCEPT ![s] = [title |-> "", content |-> "", path |-> p]]
              /\ nDeletes' = nDeletes + 1
              /\ pc' = [pc EXCEPT ![s] = "del_writer"]
              /\ UNCHANGED msg
         ELSE /\ msg' = [msg EXCEPT ![s] = "Please enter a document path/ID to delete."]
              /\ pc' = [pc EXCEPT ![s] = "tab4"]
              /\ UNCHANGED << cached, arg, nDeletes >>
  /\ page' = [page EXCEPT ![s] = NoPage]
  /\ UNCHANGED << indexVars, lock, nAdds, writer, searcher, srch, all_docs,
                  current_page, last_query >>

DelWriter(s) ==
  /\ pc[s] = "del_writer"
  /\ IF LockFree
       THEN /\ lock' = s
            /\ writer' = [writer EXCEPT ![s] = NewWriter]
            /\ pc' = [pc EXCEPT ![s] = "del_query"]
            /\ UNCHANGED << msg, arg >>
       ELSE /\ pc' = [pc EXCEPT ![s] = "error"]
            /\ msg' = [msg EXCEPT ![s] = "LockError"]
            /\ arg' = [arg EXCEPT ![s] = NoArg]
            /\ UNCHANGED << lock, writer >>
  /\ UNCHANGED << indexVars, cached, nAdds, nDeletes, searcher, srch, all_docs,
                  sessionState >>

DelQuery(s) ==
  /\ pc[s] = "del_query"
  /\ \E raises \in BOOLEAN :
       IF raises
         THEN ExceptAbort(s, "Error deleting document")
         ELSE /\ writer' = [writer EXCEPT ![s] = delete_by_query(@, arg[s].path)]
              /\ pc' = [pc EXCEPT ![s] = "del_commit"]
              /\ UNCHANGED << docs, hasSegments, lock, msg, arg >>
  /\ UNCHANGED << dir, cached, nAdds, nDeletes, searcher, srch, all_docs,
                  sessionState >>

DelCommit(s) ==
  /\ pc[s] = "del_commit"
  /\ \E raises \in BOOLEAN :
       IF raises
         THEN ExceptAbort(s, "Error deleting document")
         ELSE /\ docs' = commit(writer[s])
              /\ hasSegments' = (hasSegments \/ writer[s].adds # << >>)
              /\ lock' = NoOne
              /\ writer' = [writer EXCEPT ![s] = NoWriter]
              /\ msg' = [msg EXCEPT ![s] =
                           IF deleted_count(writer[s]) > 0
                             THEN "Document deleted successfully"
                             ELSE "No document found to delete"]
              /\ pc' = [pc EXCEPT ![s] = "deleted"]
              /\ UNCHANGED arg
  /\ UNCHANGED << dir, cached, nAdds, nDeletes, searcher, srch, all_docs,
                  sessionState >>

(* ------------------------------------------------------------------ *)
(* Tab 4: all_docs = get_all_documents(ix)                             *)
(* ------------------------------------------------------------------ *)
(* with index_obj.searcher() as searcher: *)
Tab4Open(s) ==
  /\ pc[s] = "tab4"
  /\ searcher' = [searcher EXCEPT ![s] = NewSearcher]
  /\ pc' = [pc EXCEPT ![s] = "tab4_read"]
  /\ UNCHANGED << indexVars, lock, cached, nAdds, nDeletes, arg, writer, srch,
                  all_docs, msg, sessionState >>

(* results = searcher.search(Every(), limit=None); documents.append(dict(hit)) *)
Tab4Read(s) ==
  /\ pc[s] = "tab4_read"
  /\ all_docs' = [all_docs EXCEPT ![s] = SearcherDocs(searcher[s])]
  /\ searcher' = [searcher EXCEPT ![s] = NoSearcher]
  /\ pc' = [pc EXCEPT ![s] = "tab4_show"]
  /\ UNCHANGED << indexVars, lock, cached, nAdds, nDeletes, arg, writer, srch,
                  msg, sessionState >>

(* Lines 276-285: the list is written out and the run ends. *)
Tab4Show(s) ==
  /\ pc[s] = "tab4_show"
  /\ all_docs' = [all_docs EXCEPT ![s] = << >>]
  /\ msg' = [msg EXCEPT ![s] = ""]
  /\ pc' = [pc EXCEPT ![s] = "idle"]
  /\ UNCHANGED << indexVars, lock, cached, nAdds, nDeletes, arg, writer, searcher,
                  srch, sessionState >>

(* ------------------------------------------------------------------ *)
(* Specification                                                       *)
(* ------------------------------------------------------------------ *)
(* One step of a session's script run, the search tab apart. *)
Step(s) ==
  \/ GetOrCreateIndex(s)
  \/ StartupIsEmpty(s)
  \/ SeedWriter(s)
  \/ SeedAdd(s)
  \/ SeedCommit(s)
  \/ ClickOther(s)
  \/ ClickAdd(s)
  \/ AddWriter(s)
  \/ AddDocument(s)
  \/ AddCommit(s)
  \/ Rerun(s)
  \/ ClickDelete(s)
  \/ DelWriter(s)
  \/ DelQuery(s)
  \/ DelCommit(s)
  \/ Tab4Open(s)
  \/ Tab4Read(s)
  \/ Tab4Show(s)

(* Concurrent sessions over one index. *)
Next == \E s \in Sessions : Step(s)

Spec == Init /\ [][Next]_vars

(* One session using every tab, the search tab included. *)
Searchers == {"s1"}

SearchNext ==
  \E s \in Searchers :
    \/ Step(s)
    \/ ClickSearch(s)
    \/ Tab1Results(s)

SearchSpec == InitAnyDir /\ [][SearchNext]_vars


(* ------------------------------------------------------------------ *)
(* Claims                                                              *)
(* ------------------------------------------------------------------ *)
WriterRegion == {"seed_add", "seed_commit", "add_doc", "add_commit",
                 "del_query", "del_commit"}

CreationMessages == { "Index is empty or corrupt. Creating a new one.",
                      "Error opening index. Attempting to create a new one." }

(* C1 -- Upsert invariant: in every published state, for every path p held
   by the index, the index holds exactly one live document with path p, and
   it is the document most recently added for p (the last one in docnum
   order). *)
UpsertInvariant ==
  \A k \in DOMAIN docs :
    LET hits == TermPath(docs, docs[k].path)
    IN  Len(hits) = 1 /\ docs[k] = hits[Len(hits)]

(* C2 -- Delete by path: a committed delete of a path p that the index holds
   removes exactly the document with path p, so the index afterwards is the
   previous one without it and holds one document less. *)
DeleteRemovesOne ==
  [][ \A s \in Sessions :
        ( /\ pc[s] = "del_commit"
          /\ pc'[s] = "deleted"
          /\ Len(TermPath(docs, arg[s].path)) > 0 )
        => ( /\ Len(docs') = Len(docs) - 1
             /\ docs' = SelectSeq(docs, LAMBDA d : d.path # arg[s].path) ) ]_vars

(* C3 -- Commit atomicity on failure: when add_document, delete_by_query or
   commit raises inside add_document_to_index or delete_document_from_index,
   the handler leaves the published documents exactly as they were when the
   operation opened its writer, and the writer is closed and its lock
   released. *)
AbortLeavesIndex ==
  [][ \A s \in Sessions :
        ( /\ pc[s] \in {"add_doc", "add_commit", "del_query", "del_commit"}
          /\ pc'[s] = "rerun" )
        => ( /\ docs' = writer[s].base
             /\ docs' = docs
             /\ hasSegments' = hasSegments
             /\ ~writer'[s].open
             /\ lock' = NoOne ) ]_vars

AbortLeavesIndexWitness ==
  \E s \in Sessions :
    /\ pc[s] = "rerun"
    /\ msg[s] \in {"Error adding document", "Error deleting document"}
    /\ docs # << >>

(* C4 -- Single writer: at most one writer is open at any time and it holds
   the lock; a session that calls writer() while the lock is held opens no
   writer, changes nothing, and its run ends with LockError. *)
AtMostOneWriter ==
  /\ Cardinality({ s \in Sessions : writer[s].open }) <= 1
  /\ \A s \in Sessions : writer[s].open => lock = s

BusyReported ==
  \A s \in Sessions :
    ( /\ pc[s] \in {"seed_writer", "add_writer", "del_writer"}
      /\ pc'[s] # pc[s]
      /\ lock # NoOne )
    => ( /\ pc'[s] = "error"
         /\ msg'[s] = "LockError"
         /\ writer'[s] = writer[s]
         /\ lock' = lock
         /\ docs' = docs )

SingleWriter == [] AtMostOneWriter /\ [][BusyReported]_vars

SingleWriterWitness ==
  \E s \in Sessions :
    /\ pc[s] = "error"
    /\ msg[s] = "LockError"
    /\ lock \in Sessions \ {s}
    /\ writer[lock].open

(* C5 -- Snapshot isolation: what get_all_documents returns is the list of
   documents that were live when its searcher was opened, whatever was
   committed between the opening and the read. *)
SnapshotIsolation ==
  [][ \A s \in Sessions :
        ( pc[s] = "tab4_read" /\ pc'[s] = "tab4_show" )
        => all_docs'[s] = searcher[s].snapshot ]_vars

SnapshotIsolationWitness ==
  \E s \in Sessions :
    /\ pc[s] = "tab4_read"
    /\ searcher[s].open
    /\ searcher[s].snapshot # docs

(* C6 -- Round-trip: right after add_document_to_index has committed a
   document, the exact-match query on its path has exactly one hit, whose
   stored title, content and path are the values added. *)
RoundTrip ==
  [][ \A s \in Sessions :
        ( pc[s] = "add_commit" /\ pc'[s] = "added" )
        => TermPath(docs', arg[s].path) = << arg[s] >> ]_vars

(* The step of get_or_create_index on a non-empty directory that does not
   open as an index. *)
OpenFails(s) ==
  /\ pc[s] \in {"idle", "error"}
  /\ pc'[s] = "startup"
  /\ ~cached
  /\ dir.exists
  /\ dir.toc # "valid"
  /\ dir.foreign \/ dir.toc = "corrupt"

(* C7 (as stated) -- Index creation over existing content: on a non-empty
   directory that does not open as an index, get_or_create_index fails with
   AlreadyExists and leaves the directory as it was. *)
CreateFailsAlreadyExists ==
  [][ \A s \in Sessions :
        OpenFails(s) => ( msg'[s] = "AlreadyExists" /\ dir' = dir /\ docs' = docs ) ]_vars

(* C7 (amended) -- on a non-empty directory that does not open as an index,
   get_or_create_index does not fail: it says that it creates a new index
   and returns a new empty one made in that directory; the files that are
   not the index's stay, the documents of the unreadable index are gone. *)
CreateOverExisting ==
  [][ \A s \in Sessions :
        OpenFails(s)
        => ( /\ dir'.toc = "valid"
             /\ dir'.exists
             /\ dir'.foreign = dir.foreign
             /\ docs' = << >>
             /\ ~hasSegments'
             /\ cached'
             /\ msg'[s] \in CreationMessages ) ]_vars

CreateOverExistingWitness ==
  \E s \in Sessions :
    /\ pc[s] = "startup"
    /\ msg[s] \in CreationMessages
    /\ dir.foreign
    /\ dir.toc = "valid"
    /\ docs = << >>

(* C8 -- Pagination bounds: whenever a page of results is rendered, its
   current page is between 1 and total_pages = ceil(total / per_page), it is
   the session's current_page, and the displayed slice is not empty. *)
PaginationBounds ==
  \A s \in Sessions :
    page[s] # NoPage
    => ( /\ page[s].total >= 1
         /\ page[s].total_pages * page[s].per_page >= page[s].total
         /\ (page[s].total_pages - 1) * page[s].per_page < page[s].total
         /\ 1 <= page[s].current_page
         /\ page[s].current_page <= page[s].total_pages
         /\ current_page[s] = page[s].current_page
         /\ page[s].displayed >= 1 )

PaginationBoundsWitness ==
  \E s \in Sessions :
    /\ page[s] # NoPage
    /\ page[s].total_pages >= 2
    /\ page[s].per_page >= 2

(* C9 -- Writer release: a session that is not inside one of the writing
   operations has no writer open: every writer was committed or aborted by
   the time the operation that opened it ended. *)
WriterReleased ==
  \A s \in Sessions : pc[s] \notin WriterRegion => ~writer[s].open

(* C10 -- Seeding only when empty: as long as only the startup code has
   written to the index, each seed path is present at most once. *)
SeedOnce ==
  nAdds = 0 => \A p \in SeedPaths : Len(TermPath(docs, p)) <= 1

====
